---------------------------- MODULE Spec2Model ----------------------------
(***************************************************************************)
(* The map module of worldeditor2 (World / Cube / Voxel).                  *)
(*                                                                         *)
(* JavaScript arrays are modelled as sequences; a JavaScript index i is    *)
(* the sequence index i+1.  A getter or method that can throw is modelled  *)
(* as an operator returning an outcome record [thrown, val]: Throw(msg)    *)
(* when the call raises, Return(v) when it returns v.  The JavaScript      *)
(* value undefined read from an array is the record Undefined.             *)
(*                                                                         *)
(* Where the identity of an array matters (World.empty, the palette shared *)
(* by World.map) the arrays live in heap, a sequence of arrays addressed   *)
(* by their index, and a world holds the addresses of its palette and of   *)
(* its space; mapped is the world returned by World.map.  The other        *)
(* specifications keep the arrays in the world itself and leave heap       *)
(* empty.                                                                  *)
(***************************************************************************)
EXTENDS Integers, Sequences, FiniteSets

VARIABLES world, prev, op, arg, ret, heap, mapped

vars == <<world, prev, op, arg, ret, heap, mapped>>

(***************************************************************************)
(* Bounds of the model.                                                    *)
(***************************************************************************)
MaxDim == 2     \* largest width / height / depth of a palette cube
MaxExt == 2     \* largest width / height / depth of a rectangular space
MaxPal == 2     \* largest palette length of an initial world

(***************************************************************************)
(* Outcomes and JavaScript values.                                         *)
(***************************************************************************)
Throw(msg) == [thrown |-> TRUE, val |-> msg]

Return(v) == [thrown |-> FALSE, val |-> v]

Undefined == [undefined |-> TRUE]

TypeError == "TypeError"

\* Array.prototype.flat(1) of an array of arrays
RECURSIVE Flat(_)
Flat(s) == IF s = <<>> THEN <<>> ELSE Head(s) \o Flat(Tail(s))

\* Array.prototype.flat(2) of an array of arrays of arrays
Flat2(s) == Flat(Flat(s))

(***************************************************************************)
(* Voxel                                                                   *)
(***************************************************************************)
\* new Voxel(r,g,b,a)
Voxel(r, g, b, a) == [r |-> r, g |-> g, b |-> b, a |-> a]

\* new Voxel(): every channel defaults to 0
DefaultVoxel == Voxel(0, 0, 0, 0)

\* get visible
Visible(v) == v.a # 0

\* static Voxel.eq(a,b)
VoxelEq(a, b) == a.r = b.r /\ a.g = b.g /\ a.b = b.b /\ a.a = b.a

(***************************************************************************)
(* Cube                                                                    *)
(***************************************************************************)
\* new Cube(name, description, vox, author)
Cube(name, description, vox, author) ==
    [name |-> name, description |-> description, vox |-> vox, author |-> author]

\* get width / height / depth of a cube
Width(c) == Len(c.vox)

Height(c) == Len(c.vox[1])

Depth(c) == Len(c.vox[1][1])

(***************************************************************************)
(* World                                                                   *)
(***************************************************************************)
\* new World(name, description, cube, space, author)
World(name, description, cube, space, author) ==
    [name |-> name, description |-> description, cube |-> cube,
     space |-> space, author |-> author]

\* get width of a world: this.space.length
WorldWidth(w) == Return(Len(w.space))

\* get height of a world: this.space[0].length, a TypeError when space is empty
WorldHeight(w) ==
    IF Len(w.space) = 0 THEN Throw(TypeError) ELSE Return(Len(w.space[1]))

\* get depth of a world: this.space[0][0].length
WorldDepth(w) ==
    IF Len(w.space) = 0 \/ Len(w.space[1]) = 0
    THEN Throw(TypeError)
    ELSE Return(Len(w.space[1][1]))

NoBlock == "No block defined yet, therefor no cube dimensions present"

\* get cubeWidth / cubeHeight / cubeDepth
CubeWidth(w) ==
    IF Len(w.cube) > 0 THEN Return(Width(w.cube[1])) ELSE Throw(NoBlock)

CubeHeight(w) ==
    IF Len(w.cube) > 0 THEN Return(Height(w.cube[1])) ELSE Throw(NoBlock)

\* cubeDepth that reads the width, as asCube does on the z axis
CubeDepthAsWidth(w) ==
    IF Len(w.cube) > 0 THEN Return(Width(w.cube[1])) ELSE Throw(NoBlock)

CubeDepth(w) ==
    IF Len(w.cube) > 0 THEN Return(Depth(w.cube[1])) ELSE Throw(NoBlock)

UnequalSpace == "The space has unequal dimensionality"

UnequalCubes == "The cubes have unequal sizes"

\* integrity without the comparison of the cubes' sizes
IntegritySpaceOnly(w) ==
    IF WorldHeight(w).thrown \/ WorldDepth(w).thrown
    THEN Throw(TypeError)
    ELSE IF WorldWidth(w).val * WorldHeight(w).val * WorldDepth(w).val
              # Len(Flat2(w.space))
    THEN Throw(UnequalSpace)
    ELSE Return(TRUE)

\* get integrity
Integrity(w) ==
    IF WorldHeight(w).thrown \/ WorldDepth(w).thrown
    THEN Throw(TypeError)
    ELSE IF WorldWidth(w).val * WorldHeight(w).val * WorldDepth(w).val
              # Len(Flat2(w.space))
    THEN Throw(UnequalSpace)
    ELSE IF Len(w.cube) > 0
            /\ \E i \in 1..Len(w.cube) :
                  \/ Width(w.cube[i])  # CubeWidth(w).val
                  \/ Height(w.cube[i]) # CubeHeight(w).val
                  \/ Depth(w.cube[i])  # CubeDepth(w).val
    THEN Throw(UnequalCubes)
    ELSE Return(TRUE)


\* the callback of asCube (lines 70-82): the voxel at world coordinate (x,y,z),
\* 0-based.  Reading a property of undefined raises a TypeError; an index past
\* the end of an array reads undefined.
AsCubeCell(w, x, y, z) ==
    LET cw == CubeWidth(w).val
        ch == CubeHeight(w).val
        i  == x \div cw
        j  == y \div ch
        k  == z \div cw
    IN  IF i >= Len(w.space) \/ j >= Len(w.space[i + 1])
        THEN Throw(TypeError)
        ELSE IF k >= Len(w.space[i + 1][j + 1])
        THEN Throw(TypeError)               \* id undefined: cube[NaN].vox
        ELSE LET id == w.space[i + 1][j + 1][k + 1]
             IN  IF id = 0
                 THEN Return(DefaultVoxel)
                 ELSE IF id - 1 >= Len(w.cube)
                 THEN Throw(TypeError)       \* cube[id-1] undefined
                 ELSE LET vox == w.cube[id].vox
                      IN  IF (x % cw) >= Len(vox)
                             \/ (y % ch) >= Len(vox[(x % cw) + 1])
                          THEN Throw(TypeError)
                          ELSE IF (z % cw) >= Len(vox[(x % cw) + 1][(y % ch) + 1])
                          THEN Return(Undefined)
                          ELSE Return(vox[(x % cw) + 1][(y % ch) + 1][(z % cw) + 1])

\* the body of asCube after the integrity check (lines 64-83)
AsCubeBuild(w) ==
    IF CubeWidth(w).thrown
    THEN Throw(NoBlock)
    ELSE IF WorldHeight(w).thrown \/ WorldDepth(w).thrown
    THEN Throw(TypeError)
    ELSE LET X == CubeWidth(w).val * WorldWidth(w).val
             Y == CubeHeight(w).val * WorldHeight(w).val
             Z == CubeDepth(w).val * WorldDepth(w).val
         IN  IF \E x \in 0..(X - 1), y \in 0..(Y - 1), z \in 0..(Z - 1) :
                    AsCubeCell(w, x, y, z).thrown
             THEN Throw(TypeError)
             ELSE Return(Cube(w.name, w.description,
                              [x \in 1..X |-> [y \in 1..Y |-> [z \in 1..Z |->
                                  AsCubeCell(w, x - 1, y - 1, z - 1).val]]],
                              w.author))

\* asCube without the integrity check
AsCubeUnchecked(w) == AsCubeBuild(w)

\* get asCube
AsCube(w) ==
    IF Integrity(w).thrown THEN Integrity(w) ELSE AsCubeBuild(w)

\* the reduce that puts a new voxel in front of the list
RECURSIVE DedupFront(_, _)
DedupFront(a, s) ==
    IF s = <<>> THEN a
    ELSE IF \A n \in 1..Len(a) : ~VoxelEq(a[n], Head(s))
         THEN DedupFront(<<Head(s)>> \o a, Tail(s))
         ELSE DedupFront(a, Tail(s))

\* the reduce of Cube.voxelTypes (lines 251-256) over the flattened voxels
RECURSIVE Dedup(_, _)
Dedup(a, s) ==
    IF s = <<>> THEN a
    ELSE IF \A n \in 1..Len(a) : ~VoxelEq(a[n], Head(s))
         THEN Dedup(a \o <<Head(s)>>, Tail(s))
         ELSE Dedup(a, Tail(s))

\* Array.prototype.filter with the predicate "visible"
RECURSIVE FilterVisible(_)
FilterVisible(s) ==
    IF s = <<>> THEN <<>>
    ELSE IF Visible(Head(s))
         THEN <<Head(s)>> \o FilterVisible(Tail(s))
         ELSE FilterVisible(Tail(s))

\* voxelTypes that neither deduplicates nor filters
CubeVoxelTypesRaw(c) == Flat2(c.vox)

\* get voxelTypes of a cube
CubeVoxelTypes(c) == FilterVisible(Dedup(<<>>, Flat2(c.vox)))

\* c.filter(x => !a.some(y => Voxel.eq(x,y))) of World.voxelTypes
RECURSIVE FilterNew(_, _)
FilterNew(a, c) ==
    IF c = <<>> THEN <<>>
    ELSE IF \E n \in 1..Len(a) : VoxelEq(Head(c), a[n])
         THEN FilterNew(a, Tail(c))
         ELSE <<Head(c)>> \o FilterNew(a, Tail(c))

\* the reduce of World.voxelTypes (lines 93-94) over the cubes' lists
RECURSIVE UnionTypes(_, _)
UnionTypes(a, lists) ==
    IF lists = <<>> THEN a
    ELSE UnionTypes(a \o FilterNew(a, Head(lists)), Tail(lists))

\* get voxelTypes of a world
WorldVoxelTypes(w) ==
    UnionTypes(<<>>, [n \in 1..Len(w.cube) |-> CubeVoxelTypes(w.cube[n])])

\* the guard of addCube without the comparison of the depths
AddCubeThrowsNoDepth(w, c) ==
    /\ Len(w.cube) # 0
    /\ \/ CubeWidth(w).val  # Width(c)
       \/ CubeHeight(w).val # Height(c)

\* addCube(cube): the outcome and the palette afterwards
AddCubeThrows(w, c) ==
    /\ Len(w.cube) # 0
    /\ \/ CubeWidth(w).val  # Width(c)
       \/ CubeHeight(w).val # Height(c)
       \/ CubeDepth(w).val  # Depth(c)

\* addCube that puts the cube in front (unshift for push)
AddCubePaletteFront(w, c) ==
    IF AddCubeThrows(w, c) THEN w.cube ELSE <<c>> \o w.cube

AddCubePalette(w, c) ==
    IF AddCubeThrows(w, c) THEN w.cube ELSE Append(w.cube, c)


\* static Cube.empty(x,y,z)
CubeEmpty(x, y, z) ==
    Cube("", "", [i \in 1..x |-> [j \in 1..y |-> [k \in 1..z |-> DefaultVoxel]]], "")

(***************************************************************************)
(* map: the callbacks the model passes to World.map and Cube.map           *)
(***************************************************************************)
IdFns == {"identity", "clear", "checker"}

\* f(id, x, y, z) for the id callbacks
ApplyIdFn(f, id, i, j, k) ==
    CASE f = "identity" -> id
      [] f = "clear"    -> 0
      [] f = "checker"  -> (i + j + k) % 2

VoxelFns == {"identity", "hide", "stairs"}

\* f(voxel, x, y, z) for the voxel callbacks ("stairs" is the example of the
\* documentation of Cube.map)
ApplyVoxelFn(f, v, i, j, k) ==
    CASE f = "identity" -> v
      [] f = "hide"     -> Voxel(v.r, v.g, v.b, 0)
      [] f = "stairs"   -> IF j = i - k THEN Voxel(255, 255, 255, 1) ELSE DefaultVoxel

\* World.map(f): the constructor is called without its author argument, so the
\* author of the new world is the default ''
WorldMap(w, f) ==
    World(w.name, w.description, w.cube,
          [i \in 1..Len(w.space) |->
              [j \in 1..Len(w.space[i]) |->
                  [k \in 1..Len(w.space[i][j]) |->
                      ApplyIdFn(f, w.space[i][j][k], i - 1, j - 1, k - 1)]]],
          "")

\* Cube.map that forgets the author, as World.map does
CubeMapNoAuthor(c, f) ==
    Cube(c.name, c.description,
         [i \in 1..Len(c.vox) |->
             [j \in 1..Len(c.vox[i]) |->
                 [k \in 1..Len(c.vox[i][j]) |->
                     ApplyVoxelFn(f, c.vox[i][j][k], i - 1, j - 1, k - 1)]]],
         "")

\* Cube.map(f)
CubeMap(c, f) ==
    Cube(c.name, c.description,
         [i \in 1..Len(c.vox) |->
             [j \in 1..Len(c.vox[i]) |->
                 [k \in 1..Len(c.vox[i][j]) |->
                     ApplyVoxelFn(f, c.vox[i][j][k], i - 1, j - 1, k - 1)]]],
         c.author)

\* a mask that compares the colour and not the alpha
MaskByColour(c, t) ==
    [i \in 1..Len(c.vox) |->
        [j \in 1..Len(c.vox[i]) |->
            [k \in 1..Len(c.vox[i][j]) |->
                /\ c.vox[i][j][k].r = t.r
                /\ c.vox[i][j][k].g = t.g
                /\ c.vox[i][j][k].b = t.b]]]

\* this.map( v => Voxel.eq(v,voxeltype) ).vox of voxPairs
Mask(c, t) ==
    [i \in 1..Len(c.vox) |->
        [j \in 1..Len(c.vox[i]) |->
            [k \in 1..Len(c.vox[i][j]) |-> VoxelEq(c.vox[i][j][k], t)]]]

\* get voxPairs: for each voxel type the pair [mask, voxeltype]
VoxPairs(c) ==
    [n \in 1..Len(CubeVoxelTypes(c)) |->
        << Mask(c, CubeVoxelTypes(c)[n]), CubeVoxelTypes(c)[n] >>]

(***************************************************************************)
(* Serialization.  The plain-object form of a value is what                *)
(* JSON.parse(JSON.stringify(value)) gives: the own properties in creation *)
(* order.  A plain voxel is kept as the ordered list of its <<key, value>> *)
(* pairs, because Voxel.fromJSON reads it by position (Object.values); the *)
(* plain cube and world are read by key and are records.                   *)
(***************************************************************************)
PlainVoxel(v) == << <<"r", v.r>>, <<"g", v.g>>, <<"b", v.b>>, <<"a", v.a>> >>

PlainCube(c) ==
    [name |-> c.name, description |-> c.description,
     vox |-> [i \in 1..Len(c.vox) |->
                [j \in 1..Len(c.vox[i]) |->
                    [k \in 1..Len(c.vox[i][j]) |-> PlainVoxel(c.vox[i][j][k])]]],
     author |-> c.author]

PlainWorld(w) ==
    [name |-> w.name, description |-> w.description,
     cube |-> [n \in 1..Len(w.cube) |-> PlainCube(w.cube[n])],
     space |-> w.space, author |-> w.author]

\* Object.values(json)
ObjectValues(json) == [n \in 1..Len(json) |-> json[n][2]]

\* the n-th positional argument of the Voxel constructor, 0 when missing
VoxelArg(vals, n) == IF n <= Len(vals) THEN vals[n] ELSE 0

\* Voxel.fromJSON that reads the values as (a, r, g, b)
VoxelFromJSONAlphaFirst(json) ==
    LET vals == ObjectValues(json)
    IN  Voxel(VoxelArg(vals, 2), VoxelArg(vals, 3), VoxelArg(vals, 4), VoxelArg(vals, 1))

\* static Voxel.fromJSON(json)
VoxelFromJSON(json) ==
    LET vals == ObjectValues(json)
    IN  Voxel(VoxelArg(vals, 1), VoxelArg(vals, 2), VoxelArg(vals, 3), VoxelArg(vals, 4))

\* static Cube.fromJSON(json)
CubeFromJSON(json) ==
    Cube(json.name, json.description,
         [i \in 1..Len(json.vox) |->
             [j \in 1..Len(json.vox[i]) |->
                 [k \in 1..Len(json.vox[i][j]) |-> VoxelFromJSON(json.vox[i][j][k])]]],
         json.author)

\* static World.fromJSON(json)
WorldFromJSON(json) ==
    World(json.name, json.description,
          [n \in 1..Len(json.cube) |-> CubeFromJSON(json.cube[n])],
          json.space, json.author)


(***************************************************************************)
(* Arrays by reference.  An array of the heap holds ids (a row), cubes     *)
(* (a palette) or addresses of arrays (a space, a slice).                  *)
(***************************************************************************)
\* no world (mapped before World.map is called)
NoWorld == [none |-> TRUE]

\* the ids of the space at address a, read through the heap
SpaceOf(h, a) ==
    [i \in 1..Len(h[a]) |-> [j \in 1..Len(h[h[a][i]]) |-> h[h[h[a][i]][j]]]]

\* the world w with its palette and space read through the heap
ValueOf(h, w) == World(w.name, w.description, h[w.cube], SpaceOf(h, w.space), w.author)

\* new World(...) of arrays that are all distinct: the palette at 1, the space
\* at 2, then its slices, then its rows (a rectangular space)
Store(v) ==
    LET W == Len(v.space)
        H == Len(v.space[1])
    IN  [heap |->
            [a \in 1..(2 + W + W * H) |->
                IF a = 1 THEN v.cube
                ELSE IF a = 2 THEN [i \in 1..W |-> 2 + i]
                ELSE IF a <= 2 + W THEN [j \in 1..H |-> 2 + W + (a - 3) * H + j]
                ELSE v.space[((a - 3 - W) \div H) + 1][((a - 3 - W) % H) + 1]],
         world |-> World(v.name, v.description, 1, 2, v.author)]

\* World.empty that gives every slice and every row an array of its own
WorldEmptyFresh(x, y, z) ==
    Store(World("", "", <<>>, [i \in 1..x |-> [j \in 1..y |-> [k \in 1..z |-> 0]]], ""))

\* static World.empty(x,y,z): fill() stores the one array it is given in every
\* element.  The arrays in creation order: the palette [], new Array(x),
\* new Array(y), new Array(z).
WorldEmpty(x, y, z) ==
    [heap |-> << <<>>, [i \in 1..x |-> 3], [j \in 1..y |-> 4], [k \in 1..z |-> 0] >>,
     world |-> World("", "", 1, 2, "")]

\* w.space[i][j][k] = id (i, j, k counted from 1)
SetId(h, w, i, j, k, id) ==
    [h EXCEPT ![h[h[w.space][i]][j]][k] = id]

\* World.map(f) that also copies the palette
WorldMapHeapCopy(h, w, f) ==
    LET v  == WorldMap(ValueOf(h, w), f)
        W  == Len(v.space)
        n0 == Len(h) + 1
    IN  [heap |-> h \o << h[w.cube] >>
                    \o << [i \in 1..W |-> n0 + 1 + i] >>
                    \o [i \in 1..W |->
                          [j \in 1..Len(v.space[i]) |->
                              n0 + 1 + W + Len(Flat(SubSeq(v.space, 1, i - 1))) + j]]
                    \o Flat(v.space),
         world |-> World(v.name, v.description, n0, n0 + 1, v.author)]

\* World.map(f) on the heap: Array.prototype.map makes a new array for the
\* space, for every slice and for every row; this.cube is passed as it is
WorldMapHeap(h, w, f) ==
    LET v  == WorldMap(ValueOf(h, w), f)
        W  == Len(v.space)
        n0 == Len(h)
    IN  [heap |-> h \o << [i \in 1..W |-> n0 + 1 + i] >>
                    \o [i \in 1..W |->
                          [j \in 1..Len(v.space[i]) |->
                              n0 + 1 + W + Len(Flat(SubSeq(v.space, 1, i - 1))) + j]]
                    \o Flat(v.space),
         world |-> World(v.name, v.description, w.cube, n0 + 1, v.author)]

\* addCube(cube) on the heap: push changes the palette array in place
AddCubeHeap(h, w, c) ==
    [h EXCEPT ![w.cube] = AddCubePalette(ValueOf(h, w), c)]

(***************************************************************************)
(* The worlds the model starts from.                                       *)
(***************************************************************************)
Colors ==
    << DefaultVoxel, Voxel(255, 128, 64, 1), Voxel(10, 20, 30, 2), Voxel(255, 128, 64, 0) >>

CubeMetas ==
    << [name |-> "", description |-> "", author |-> ""],
       [name |-> "stone", description |-> "a block", author |-> "Luca"] >>

Dims == (1..MaxDim) \X (1..MaxDim) \X (1..MaxDim)

\* a cube of dimensions d whose voxels run through Colors from seed s
PatternCube(d, s) ==
    LET m == CubeMetas[(s % 2) + 1]
    IN  Cube(m.name, m.description,
             [x \in 1..d[1] |-> [y \in 1..d[2] |-> [z \in 1..d[3] |->
                 Colors[((s + (x - 1) + 2 * (y - 1) + 3 * (z - 1)) % Len(Colors)) + 1]]]],
             m.author)

\* n cubes of the same dimensions
UniformPalette(d, n) == [i \in 1..n |-> PatternCube(d, i)]

\* n cubes of which the last has other dimensions
OddPalette(d, e, n) == [i \in 1..n |-> IF i = n THEN PatternCube(e, i) ELSE PatternCube(d, i)]

\* the dimensions that differ from d on exactly one axis
Neighbours(d) == {e \in Dims : Cardinality({a \in 1..3 : e[a] # d[a]}) = 1}

\* the ids of a space: they run through 0..m-1 from t
PatternId(t, m, i, j, k) == (t + (i - 1) + (j - 1) + (k - 1)) % m

\* a rectangular space of extents e
RectSpace(e, t, m) ==
    [i \in 1..e[1] |-> [j \in 1..e[2] |-> [k \in 1..e[3] |-> PatternId(t, m, i, j, k)]]]

Extents == (1..MaxExt) \X (1..MaxExt) \X (1..MaxExt)

\* a space given by the length of each of its rows: lens[i][j] ids in row j of slice i
ShapedSpace(lens, t, m) ==
    [i \in 1..Len(lens) |-> [j \in 1..Len(lens[i]) |-> [k \in 1..lens[i][j] |->
        PatternId(t, m, i, j, k)]]]

RectLens(e) == [i \in 1..e[1] |-> [j \in 1..e[2] |-> e[3]]]

\* the rows of a W x H grid in flattening order, numbered from 0
RowI(r, H) == (r \div H) + 1

RowJ(r, H) == (r % H) + 1

\* row r made longer by one (by > 0) or shorter by one (by < 0)
Resize(lens, r, H, by) ==
    [lens EXCEPT ![RowI(r, H)][RowJ(r, H)] = @ + by]

\* the jagged shapes: a rectangular shape with one row resized, with two
\* neighbouring rows resized in opposite directions, with the last row of a
\* slice dropped, or with an empty row added to a slice
JaggedLens ==
    UNION { LET W == e[1]
                H == e[2]
                L == RectLens(e)
            IN  {Resize(L, r, H, by) : r \in 0..(W * H - 1), by \in {-1, 1}}
                \cup {Resize(Resize(L, r, H, by), r + 1, H, 0 - by) :
                         r \in 0..(W * H - 2), by \in {-1, 1}}
                \cup {[L EXCEPT ![i] = SubSeq(@, 1, H - 1)] : i \in 1..W}
                \cup {[L EXCEPT ![i] = Append(@, 0)] : i \in 1..W}
          : e \in Extents }

WorldMeta == [name |-> "island", description |-> "a map", author |-> "Happel"]

\* the id patterns tried with a palette of n cubes: all ids 0 (m = 1), all ids
\* in 0..n (m = n + 1), or ids in 0..n+1, the last without a palette entry
IdPatterns(n) == {tm \in (0..1) \X {1, n + 1, n + 2} : tm[1] < tm[2]}

\* well-formed shapes: an empty or uniform palette and a rectangular space
RegularWorlds ==
    UNION { { World(WorldMeta.name, WorldMeta.description, UniformPalette(d, n),
                    RectSpace(e, tm[1], tm[2]), WorldMeta.author) :
                d \in Dims, e \in Extents, tm \in IdPatterns(n) }
          : n \in {1, MaxPal} }
    \cup
    { World(WorldMeta.name, WorldMeta.description, <<>>,
            RectSpace(e, tm[1], tm[2]), WorldMeta.author) :
        e \in Extents, tm \in IdPatterns(0) }

\* the palettes whose last cube has other dimensions than the first
OddPalettes ==
    { OddPalette(de[1], de[2], n) :
        de \in {de \in Dims \X Dims : de[2] \in Neighbours(de[1])}, n \in 2..MaxPal }

\* an odd palette over a cubic space
MixedWorlds ==
    { World(WorldMeta.name, WorldMeta.description, p, RectSpace(<<x, x, x>>, 0, m),
            WorldMeta.author) :
        p \in OddPalettes, x \in 1..MaxExt, m \in 1..2 }

\* the spaces that are not rectangular, or have no first slice or first row
JaggedSpaces ==
    { ShapedSpace(lens, 0, m) :
        lens \in JaggedLens \cup {<<>>, << <<>> >>, << << 0 >> >>}, m \in 1..2 }

\* a jagged space, constructed with the default name, description and author,
\* over no cube or one cubic cube
JaggedWorlds ==
    { World("", "", p, sp, "") :
        p \in {<<>>} \cup {UniformPalette(<<x, x, x>>, 1) : x \in 1..MaxDim},
        sp \in JaggedSpaces }

\* the worlds of the specification of integrity and asCube
GridWorlds == RegularWorlds \cup MixedWorlds \cup JaggedWorlds

\* the worlds of the specification of the palette operations: every palette
\* over a space of one block
PaletteWorlds ==
    { World(WorldMeta.name, WorldMeta.description, p, RectSpace(<<1, 1, 1>>, t, 2),
            WorldMeta.author) :
        p \in {<<>>} \cup {UniformPalette(d, n) : d \in Dims, n \in 1..MaxPal}
              \cup OddPalettes,
        t \in 0..1 }

\* the worlds of the specification of addCube: an empty palette or cubes of one
\* size, over a space of one block
UniformWorlds ==
    { World(WorldMeta.name, WorldMeta.description, p, RectSpace(<<1, 1, 1>>, t, 2),
            WorldMeta.author) :
        p \in {<<>>} \cup {UniformPalette(d, n) : d \in Dims, n \in 1..MaxPal},
        t \in 0..1 }

\* the worlds of the specification of World.map and World.fromJSON: with and
\* without name, description and author, a palette of at most one shape of cube
DataWorlds ==
    { World(m.name, m.description, p, sp, m.author) :
        m \in {WorldMeta, [name |-> "", description |-> "", author |-> ""]},
        p \in {<<>>, UniformPalette(<<1, 1, 1>>, MaxPal)}
              \cup {UniformPalette(d, 1) : d \in Dims},
        sp \in {RectSpace(e, t, 3) : e \in Extents, t \in 0..1} }
    \cup
    { World(WorldMeta.name, WorldMeta.description, <<>>, sp, WorldMeta.author) :
        sp \in JaggedSpaces }

\* the worlds of the specification of the shared palette: no cube or one cube,
\* over every rectangular space
ShareWorlds ==
    { World(WorldMeta.name, WorldMeta.description, p, RectSpace(e, 0, 2), WorldMeta.author) :
        p \in {<<>>, UniformPalette(<<1, 1, MaxDim>>, 1)}, e \in Extents }

\* the cubes offered to addCube there: one of the size of the palette's cube,
\* one of another size
ShareCubes(n) == {PatternCube(<<1, 1, MaxDim>>, n + 1), PatternCube(<<MaxDim, 1, 1>>, n + 1)}

\* the cubes offered to addCube
NewCubes(w) == {PatternCube(d, Len(w.cube) + 1) : d \in Dims}

(***************************************************************************)
(* The state machine: a world, and the operations applied to it.  op, arg  *)
(* and ret record the last call, its argument and its outcome; prev is the *)
(* world as it was before the call.                                        *)
(***************************************************************************)
Start(ws) ==
    /\ world \in ws
    /\ prev = world
    /\ op = "new"
    /\ arg = "none"
    /\ ret = Return(TRUE)
    /\ heap = <<>>
    /\ mapped = NoWorld

Call(name, a, r) ==
    /\ op' = name
    /\ arg' = a
    /\ ret' = r
    /\ prev' = world
    /\ UNCHANGED <<heap, mapped>>

DoIntegrity ==
    /\ Call("integrity", "none", Integrity(world))
    /\ UNCHANGED world

DoAsCube ==
    /\ Call("asCube", "none", AsCube(world))
    /\ UNCHANGED world

DoWorldVoxelTypes ==
    /\ Call("World.voxelTypes", "none", Return(WorldVoxelTypes(world)))
    /\ UNCHANGED world

DoCubeVoxelTypes ==
    \E n \in 1..Len(world.cube) :
        /\ Call("Cube.voxelTypes", n, Return(CubeVoxelTypes(world.cube[n])))
        /\ UNCHANGED world

DoAddCube ==
    /\ Len(world.cube) < MaxPal
    /\ \E c \in NewCubes(world) :
        /\ Call("addCube", c,
                IF AddCubeThrows(world, c)
                THEN Throw("cube dimensions do not confrom to other cubes dimensions")
                ELSE Return(Undefined))
        /\ world' = [world EXCEPT !.cube = AddCubePalette(world, c)]

DoCubeDims ==
    /\ \/ Call("cubeWidth", "none", CubeWidth(world))
       \/ Call("cubeHeight", "none", CubeHeight(world))
       \/ Call("cubeDepth", "none", CubeDepth(world))
    /\ UNCHANGED world

DoVoxPairs ==
    \E n \in 1..Len(world.cube) :
        /\ Call("voxPairs", n, Return(VoxPairs(world.cube[n])))
        /\ UNCHANGED world

\* the newCube handler of the menu: addCube(Cube.empty(cubeWidth, cubeHeight,
\* cubeDepth)); the getters raise before addCube is called when the palette is
\* empty
DoNewCube ==
    /\ Len(world.cube) < MaxPal
    /\ IF CubeWidth(world).thrown
       THEN /\ Call("newCube", "none", CubeWidth(world))
            /\ UNCHANGED world
       ELSE LET c == CubeEmpty(CubeWidth(world).val, CubeHeight(world).val,
                               CubeDepth(world).val)
            IN  /\ Call("newCube", c,
                        IF AddCubeThrows(world, c)
                        THEN Throw("cube dimensions do not confrom to other cubes dimensions")
                        ELSE Return(Undefined))
                /\ world' = [world EXCEPT !.cube = AddCubePalette(world, c)]

DoWorldMap ==
    \E f \in IdFns :
        /\ Call("World.map", f, Return(WorldMap(world, f)))
        /\ UNCHANGED world

DoCubeMap ==
    \E n \in 1..Len(world.cube), f \in VoxelFns :
        /\ Call("Cube.map", <<n, f>>, Return(CubeMap(world.cube[n], f)))
        /\ UNCHANGED world

DoFromJSON ==
    /\ Call("World.fromJSON", PlainWorld(world), Return(WorldFromJSON(PlainWorld(world))))
    /\ UNCHANGED world

(***************************************************************************)
(* The operations on worlds whose arrays live in the heap.  prev is the    *)
(* value of world before the call.                                         *)
(***************************************************************************)
\* the worlds at hand: world, and mapped once World.map has returned it
Targets == IF mapped = NoWorld THEN {"world"} ELSE {"world", "mapped"}

Target(t) == IF t = "world" THEN world ELSE mapped

\* World.empty(x,y,z) returns world
StartEmpty ==
    \E x \in 1..MaxExt, y \in 1..MaxExt, z \in 1..MaxExt :
        /\ heap = WorldEmpty(x, y, z).heap
        /\ world = WorldEmpty(x, y, z).world
        /\ mapped = NoWorld
        /\ prev = ValueOf(heap, world)
        /\ op = "World.empty"
        /\ arg = <<x, y, z>>
        /\ ret = Return(world)

\* new World(...) of arrays made for it returns world
StartStored ==
    \E v \in ShareWorlds :
        /\ heap = Store(v).heap
        /\ world = Store(v).world
        /\ mapped = NoWorld
        /\ prev = v
        /\ op = "new"
        /\ arg = "none"
        /\ ret = Return(world)

\* a client of the world writes an id: space[i][j][k] = id
DoSetId ==
    \E t \in Targets :
        LET sp == SpaceOf(heap, Target(t).space)
        IN  \E i \in 1..Len(sp) : \E j \in 1..Len(sp[i]) : \E k \in 1..Len(sp[i][j]) :
            \E id \in 0..MaxPal :
                /\ heap' = SetId(heap, Target(t), i, j, k, id)
                /\ op' = "setId"
                /\ arg' = [target |-> t, i |-> i, j |-> j, k |-> k, id |-> id]
                /\ ret' = Return(id)
                /\ prev' = ValueOf(heap, world)
                /\ UNCHANGED <<world, mapped>>

\* mapped = world.map(f); the model follows one mapped world
DoHeapMap ==
    /\ mapped = NoWorld
    /\ \E f \in IdFns :
        /\ heap' = WorldMapHeap(heap, world, f).heap
        /\ mapped' = WorldMapHeap(heap, world, f).world
        /\ op' = "World.map"
        /\ arg' = f
        /\ ret' = Return(mapped')
        /\ prev' = ValueOf(heap, world)
        /\ UNCHANGED world

\* addCube(c) on world or on mapped
DoHeapAddCube ==
    /\ Len(heap[world.cube]) < MaxPal
    /\ \E t \in Targets : \E c \in ShareCubes(Len(heap[Target(t).cube])) :
        /\ heap' = AddCubeHeap(heap, Target(t), c)
        /\ op' = "addCube"
        /\ arg' = [target |-> t, cube |-> c]
        /\ ret' = IF AddCubeThrows(ValueOf(heap, Target(t)), c)
                  THEN Throw("cube dimensions do not confrom to other cubes dimensions")
                  ELSE Return(Undefined)
        /\ prev' = ValueOf(heap, world)
        /\ UNCHANGED <<world, mapped>>

\* World.empty and the writes of its client
InitEmpty == StartEmpty

NextEmpty == DoSetId

SpecEmpty == InitEmpty /\ [][NextEmpty]_vars

\* World.map, then addCube on either world and, last, a write to either space
InitShare == StartEmpty \/ StartStored

NextShare == op # "setId" /\ (DoHeapMap \/ DoHeapAddCube \/ DoSetId)

SpecShare == InitShare /\ [][NextShare]_vars

\* integrity and asCube
InitGrid == Start(GridWorlds)

NextGrid == DoIntegrity \/ DoAsCube

SpecGrid == InitGrid /\ [][NextGrid]_vars

\* the palette: addCube, cubeWidth/cubeHeight/cubeDepth, voxelTypes, voxPairs,
\* Cube.map
InitPalette == Start(PaletteWorlds)

NextPalette ==
    \/ DoAddCube
    \/ DoCubeDims
    \/ DoWorldVoxelTypes
    \/ DoCubeVoxelTypes
    \/ DoVoxPairs
    \/ DoCubeMap

SpecPalette == InitPalette /\ [][NextPalette]_vars

\* World.map and World.fromJSON
InitData == Start(DataWorlds)

NextData == DoWorldMap \/ DoFromJSON

SpecData == InitData /\ [][NextData]_vars

\* sequences of addCube calls, from the menu or with any cube
InitAddCube == Start(UniformWorlds)

NextAddCube == DoAddCube \/ DoNewCube

SpecAddCube == InitAddCube /\ [][NextAddCube]_vars

(***************************************************************************)
(* Properties.  The predicates below state what the specification says of  *)
(* a world, independently of the operators that model the code.            *)
(***************************************************************************)
\* every slice has the height of the first and every row the depth of the first
Rectangular(sp) ==
    /\ Len(sp) >= 1
    /\ Len(sp[1]) >= 1
    /\ \A i \in 1..Len(sp) :
          /\ Len(sp[i]) = Len(sp[1])
          /\ \A j \in 1..Len(sp[i]) : Len(sp[i][j]) = Len(sp[1][1])

\* every palette cube has the dimensions of the first
UniformCubes(w) ==
    \A n \in 1..Len(w.cube) :
        /\ Len(w.cube[n].vox) = Len(w.cube[1].vox)
        /\ Len(w.cube[n].vox[1]) = Len(w.cube[1].vox[1])
        /\ Len(w.cube[n].vox[1][1]) = Len(w.cube[1].vox[1][1])

RECURSIVE SumLen(_)
SumLen(s) == IF s = <<>> THEN 0 ELSE Len(Head(s)) + SumLen(Tail(s))

\* the number of ids of a space
RECURSIVE CountIds(_)
CountIds(sp) == IF sp = <<>> THEN 0 ELSE SumLen(Head(sp)) + CountIds(Tail(sp))

\* the extents can be read and their product is the number of ids
CountCondition(w) ==
    /\ Len(w.space) >= 1
    /\ Len(w.space[1]) >= 1
    /\ CountIds(w.space) = Len(w.space) * Len(w.space[1]) * Len(w.space[1][1])

\* every id of the space is 0 or has a palette entry
IdsInPalette(w) ==
    \A i \in 1..Len(w.space) : \A j \in 1..Len(w.space[i]) :
        \A k \in 1..Len(w.space[i][j]) : w.space[i][j][k] \in 0..Len(w.cube)

\* a rectangular space over a non-empty palette of cubes of one size, every id
\* in the palette
WellFormed(w) ==
    /\ Rectangular(w.space)
    /\ Len(w.cube) >= 1
    /\ UniformCubes(w)
    /\ IdsInPalette(w)

\* C1: for a world that passes integrity, the cube returned by asCube holds at
\* every voxel coordinate (x,y,z) whose block id = space[x div cubeWidth]
\* [y div cubeHeight][z div cubeDepth] is not 0 the voxel
\* cube[id-1].vox[x mod cubeWidth][y mod cubeHeight][z mod cubeDepth].
\* (Stated for well-formed worlds, where every index of the claim is defined.)
C1_AsCubePerAxis ==
    (op = "asCube" /\ WellFormed(world) /\ ~ret.thrown) =>
        LET cw == Len(world.cube[1].vox)
            ch == Len(world.cube[1].vox[1])
            cd == Len(world.cube[1].vox[1][1])
        IN  \A x \in 0..(cw * Len(world.space) - 1) :
            \A y \in 0..(ch * Len(world.space[1]) - 1) :
            \A z \in 0..(cd * Len(world.space[1][1]) - 1) :
                LET id == world.space[(x \div cw) + 1][(y \div ch) + 1][(z \div cd) + 1]
                IN  id # 0 =>
                        ret.val.vox[x + 1][y + 1][z + 1]
                            = world.cube[id].vox[(x % cw) + 1][(y % ch) + 1][(z % cd) + 1]

\* C2: for a rectangular space with id 0 at block (i,j,k), asCube returns a cube
\* in which every voxel coordinate of block (i,j,k) holds a default voxel.
\* (Stated for the worlds that pass integrity over a non-empty palette.)
C2_ZeroBlockIsDefault ==
    (op = "asCube" /\ WellFormed(world) /\ ~ret.thrown) =>
        LET cw == Len(world.cube[1].vox)
            ch == Len(world.cube[1].vox[1])
            cd == Len(world.cube[1].vox[1][1])
        IN  \A i \in 1..Len(world.space) :
            \A j \in 1..Len(world.space[1]) :
            \A k \in 1..Len(world.space[1][1]) :
                world.space[i][j][k] = 0 =>
                    \A x \in ((i - 1) * cw + 1)..(i * cw) :
                    \A y \in ((j - 1) * ch + 1)..(j * ch) :
                    \A z \in ((k - 1) * cd + 1)..(k * cd) :
                        ret.val.vox[x][y][z] = DefaultVoxel

\* C3: whenever integrity returns true, the space is rectangular and the
\* palette cubes all have the same width, height and depth.
C3_IntegrityImpliesRectangular ==
    (op = "integrity" /\ ~ret.thrown) =>
        (Rectangular(world.space) /\ UniformCubes(world))

C5_AsCubeNeedsIntegrity ==
    (op = "asCube" /\ ~(CountCondition(world) /\ UniformCubes(world))) => ret.thrown

C5_Witness ==
    /\ op = "asCube"
    /\ Rectangular(world.space)
    /\ IdsInPalette(world)
    /\ ~UniformCubes(world)
    /\ ret.thrown

\* C6: addCube(c) raises when the palette is not empty and a dimension of c
\* differs from the first cube's; otherwise it succeeds and the palette is the
\* old palette with c appended as its last element.
C6_AddCube ==
    op = "addCube" =>
        IF /\ Len(prev.cube) >= 1
           /\ \/ Len(arg.vox) # Len(prev.cube[1].vox)
              \/ Len(arg.vox[1]) # Len(prev.cube[1].vox[1])
              \/ Len(arg.vox[1][1]) # Len(prev.cube[1].vox[1][1])
        THEN ret.thrown
        ELSE /\ ~ret.thrown
             /\ Len(world.cube) = Len(prev.cube) + 1
             /\ world.cube[Len(world.cube)] = arg
             /\ \A n \in 1..Len(prev.cube) : world.cube[n] = prev.cube[n]

C6_Witness ==
    /\ op = "addCube"
    /\ Len(prev.cube) >= 1
    /\ ~ret.thrown
    /\ Len(world.cube) = Len(prev.cube) + 1

\* C7: w.map(identity) is a world with the name, description, author and
\* palette of w and the same id at every coordinate of space.
C7_WorldMapIdentity ==
    (op = "World.map" /\ arg = "identity") =>
        /\ ret.val.name = world.name
        /\ ret.val.description = world.description
        /\ ret.val.author = world.author
        /\ ret.val.cube = world.cube
        /\ ret.val.space = world.space

\* C8: c.map(identity) is a cube with the width, height and depth of c, a
\* component-wise equal voxel at every coordinate, and the name, description
\* and author of c.
C8_CubeMapIdentity ==
    (op = "Cube.map" /\ arg[2] = "identity") =>
        LET c == world.cube[arg[1]]
            m == ret.val
        IN  /\ Len(m.vox) = Len(c.vox)
            /\ \A i \in 1..Len(c.vox) :
                  /\ Len(m.vox[i]) = Len(c.vox[i])
                  /\ \A j \in 1..Len(c.vox[i]) :
                        /\ Len(m.vox[i][j]) = Len(c.vox[i][j])
                        /\ \A k \in 1..Len(c.vox[i][j]) :
                              /\ m.vox[i][j][k].r = c.vox[i][j][k].r
                              /\ m.vox[i][j][k].g = c.vox[i][j][k].g
                              /\ m.vox[i][j][k].b = c.vox[i][j][k].b
                              /\ m.vox[i][j][k].a = c.vox[i][j][k].a
            /\ m.name = c.name
            /\ m.description = c.description
            /\ m.author = c.author

C8_Witness ==
    /\ op = "Cube.map"
    /\ arg[2] = "identity"
    /\ world.cube[arg[1]].author # ""
    /\ Len(ret.val.vox) # Len(ret.val.vox[1][1])
    /\ ret.val.vox[1][1][1] # ret.val.vox[Len(ret.val.vox)][1][1]

\* C9: the list returned by voxelTypes, of a cube or of a world, holds no two
\* entries that are component-wise equal and no voxel with alpha = 0.
C9_VoxelTypesDistinctVisible ==
    op \in {"Cube.voxelTypes", "World.voxelTypes"} =>
        /\ \A m, n \in 1..Len(ret.val) :
              m # n => ~(/\ ret.val[m].r = ret.val[n].r
                         /\ ret.val[m].g = ret.val[n].g
                         /\ ret.val[m].b = ret.val[n].b
                         /\ ret.val[m].a = ret.val[n].a)
        /\ \A n \in 1..Len(ret.val) : ret.val[n].a # 0

\* a world of two cubes that share a visible voxel and hold an invisible one
C9_Witness ==
    /\ op = "World.voxelTypes"
    /\ Len(world.cube) >= 2
    /\ Len(ret.val) >= 2
    /\ \E v \in {Colors[n] : n \in 1..Len(Colors)} :
          /\ v.a # 0
          /\ \A n \in 1..2 : \E i \in 1..Len(world.cube[n].vox) :
                \E j \in 1..Len(world.cube[n].vox[i]) :
                \E k \in 1..Len(world.cube[n].vox[i][j]) : world.cube[n].vox[i][j][k] = v
    /\ \E i \in 1..Len(world.cube[1].vox) :
          \E j \in 1..Len(world.cube[1].vox[i]) :
          \E k \in 1..Len(world.cube[1].vox[i][j]) : world.cube[1].vox[i][j][k].a = 0

\* C10: World.fromJSON of the plain-object form of w is a world with the name,
\* description, author and space of w, and at each palette index a cube with
\* the same name, description and author and a component-wise equal voxel at
\* every coordinate.
C10_RoundTrip ==
    op = "World.fromJSON" =>
        LET w == ret.val
        IN  /\ w.name = world.name
            /\ w.description = world.description
            /\ w.author = world.author
            /\ w.space = world.space
            /\ Len(w.cube) = Len(world.cube)
            /\ \A n \in 1..Len(world.cube) :
                  LET c == world.cube[n]
                      m == w.cube[n]
                  IN  /\ m.name = c.name
                      /\ m.description = c.description
                      /\ m.author = c.author
                      /\ Len(m.vox) = Len(c.vox)
                      /\ \A i \in 1..Len(c.vox) :
                            /\ Len(m.vox[i]) = Len(c.vox[i])
                            /\ \A j \in 1..Len(c.vox[i]) :
                                  /\ Len(m.vox[i][j]) = Len(c.vox[i][j])
                                  /\ \A k \in 1..Len(c.vox[i][j]) :
                                        /\ m.vox[i][j][k].r = c.vox[i][j][k].r
                                        /\ m.vox[i][j][k].g = c.vox[i][j][k].g
                                        /\ m.vox[i][j][k].b = c.vox[i][j][k].b
                                        /\ m.vox[i][j][k].a = c.vox[i][j][k].a

\* a named world with an author, whose first cube holds a voxel of four
\* different channel values
C10_Witness ==
    /\ op = "World.fromJSON"
    /\ world.author # ""
    /\ Len(world.cube) >= 1
    /\ Len(world.space) >= 2
    /\ LET v == ret.val.cube[1].vox[1][1][1]
       IN  Cardinality({v.r, v.g, v.b, v.a}) = 4

\* C11: asCube raises whenever the space holds a non-zero id without a palette
\* entry (an id greater than the palette length), in particular whenever the
\* palette is empty and the space holds a non-zero id.
C11_AsCubeRejectsUnknownId ==
    (op = "asCube" /\ ~IdsInPalette(world)) => ret.thrown

\* C17: for a world that passes integrity over a non-empty palette of
\* rectangular cubes, with every id in 0..palette length, asCube returns a cube
\* of width cubeWidth*width, height cubeHeight*height and depth cubeDepth*depth
\* in which every cell holds a voxel, also when the cubes' depth is not their
\* width.
C17_AsCubeTotal ==
    (op = "asCube" /\ WellFormed(world)) =>
        /\ ~ret.thrown
        /\ LET X == Len(world.cube[1].vox) * Len(world.space)
               Y == Len(world.cube[1].vox[1]) * Len(world.space[1])
               Z == Len(world.cube[1].vox[1][1]) * Len(world.space[1][1])
           IN  /\ Len(ret.val.vox) = X
               /\ \A x \in 1..X :
                     /\ Len(ret.val.vox[x]) = Y
                     /\ \A y \in 1..Y :
                           /\ Len(ret.val.vox[x][y]) = Z
                           /\ \A z \in 1..Z :
                                 DOMAIN ret.val.vox[x][y][z] = {"r", "g", "b", "a"}

\* C12: cubeWidth, cubeHeight and cubeDepth raise the "no block defined" error
\* when the palette is empty, and otherwise return the width, height and depth
\* of the first palette cube, whatever the other cubes are.
C12_CubeDims ==
    op \in {"cubeWidth", "cubeHeight", "cubeDepth"} =>
        IF Len(world.cube) = 0
        THEN ret.thrown /\ ret.val = NoBlock
        ELSE /\ ~ret.thrown
             /\ op = "cubeWidth" => ret.val = Len(world.cube[1].vox)
             /\ op = "cubeHeight" => ret.val = Len(world.cube[1].vox[1])
             /\ op = "cubeDepth" => ret.val = Len(world.cube[1].vox[1][1])

\* the depth of a palette whose last cube is deeper or shallower than the first
C12_Witness ==
    /\ op = "cubeDepth"
    /\ Len(world.cube) >= 2
    /\ ~ret.thrown
    /\ ret.val # Len(world.cube[Len(world.cube)].vox[1][1])
    /\ ret.val # Len(world.cube[1].vox)

\* the position of coordinate (x,y,z) of cube c in a scan with x outermost,
\* then y, then z
ScanPos(c, x, y, z) ==
    ((x - 1) * Len(c.vox[1]) + (y - 1)) * Len(c.vox[1][1]) + z

Coords(c) ==
    {xyz \in (1..Len(c.vox)) \X (1..Len(c.vox[1])) \X (1..Len(c.vox[1][1])) : TRUE}

SameVoxel(u, v) == u.r = v.r /\ u.g = v.g /\ u.b = v.b /\ u.a = v.a

\* the position at which voxel value v is first met in the scan of c
FirstMet(c, v) ==
    CHOOSE p \in 1..(Len(c.vox) * Len(c.vox[1]) * Len(c.vox[1][1])) :
        /\ \E xyz \in Coords(c) :
              /\ ScanPos(c, xyz[1], xyz[2], xyz[3]) = p
              /\ SameVoxel(c.vox[xyz[1]][xyz[2]][xyz[3]], v)
        /\ \A xyz \in Coords(c) :
              SameVoxel(c.vox[xyz[1]][xyz[2]][xyz[3]], v)
                  => ScanPos(c, xyz[1], xyz[2], xyz[3]) >= p

\* C13: voxPairs yields one pair per entry of voxelTypes, in the same order;
\* each mask has the width, height and depth of the cube, and mask[x][y][z] is
\* true if and only if vox[x][y][z] is component-wise equal to the pair's
\* voxel type.  So the masks are disjoint and their union marks exactly the
\* coordinates that hold a visible voxel.
C13_VoxPairs ==
    op = "voxPairs" =>
        LET c == world.cube[arg]
            types == CubeVoxelTypes(c)
        IN  /\ Len(ret.val) = Len(types)
            /\ \A n \in 1..Len(types) :
                  LET mask == ret.val[n][1]
                  IN  /\ ret.val[n][2] = types[n]
                      /\ Len(mask) = Len(c.vox)
                      /\ \A x \in 1..Len(c.vox) :
                            /\ Len(mask[x]) = Len(c.vox[1])
                            /\ \A y \in 1..Len(c.vox[1]) :
                                  /\ Len(mask[x][y]) = Len(c.vox[1][1])
                                  /\ \A z \in 1..Len(c.vox[1][1]) :
                                        mask[x][y][z]
                                            <=> SameVoxel(c.vox[x][y][z], types[n])
            /\ \A xyz \in Coords(c) :
                  LET hits == {n \in 1..Len(ret.val) :
                                  ret.val[n][1][xyz[1]][xyz[2]][xyz[3]]}
                  IN  Cardinality(hits)
                          = IF c.vox[xyz[1]][xyz[2]][xyz[3]].a # 0 THEN 1 ELSE 0

\* a cube of two visible types that also holds an invisible voxel with the
\* colour of a visible one
C13_Witness ==
    /\ op = "voxPairs"
    /\ Len(ret.val) >= 2
    /\ \E xyz \in Coords(world.cube[arg]) : \E n \in 1..Len(ret.val) :
          LET v == world.cube[arg].vox[xyz[1]][xyz[2]][xyz[3]]
          IN  /\ v.a = 0
              /\ v.r = ret.val[n][2].r
              /\ ~ret.val[n][1][xyz[1]][xyz[2]][xyz[3]]

\* C14: a voxel value is in Cube.voxelTypes if and only if some coordinate of
\* the cube holds a voxel of that value with non-zero alpha, and the entries
\* are in the order in which their values are first met in a scan of the voxel
\* array with x outermost, then y, then z.
C14_VoxelTypesCompleteOrdered ==
    op = "Cube.voxelTypes" =>
        LET c == world.cube[arg]
        IN  /\ \A xyz \in Coords(c) :
                  c.vox[xyz[1]][xyz[2]][xyz[3]].a # 0 =>
                      \E n \in 1..Len(ret.val) :
                          SameVoxel(ret.val[n], c.vox[xyz[1]][xyz[2]][xyz[3]])
            /\ \A n \in 1..Len(ret.val) :
                  /\ ret.val[n].a # 0
                  /\ \E xyz \in Coords(c) :
                        SameVoxel(ret.val[n], c.vox[xyz[1]][xyz[2]][xyz[3]])
            /\ \A m, n \in 1..Len(ret.val) :
                  m < n => FirstMet(c, ret.val[m]) < FirstMet(c, ret.val[n])

\* a cube of two visible types that holds an invisible voxel before the first
\* voxel of its last type, and a visible value twice
C14_Witness ==
    /\ op = "Cube.voxelTypes"
    /\ Len(ret.val) >= 2
    /\ LET c == world.cube[arg]
       IN  /\ \E q \in Coords(c) :
                 /\ c.vox[q[1]][q[2]][q[3]].a = 0
                 /\ ScanPos(c, q[1], q[2], q[3]) < FirstMet(c, ret.val[Len(ret.val)])
           /\ \E p, q \in Coords(c) :
                 /\ p # q
                 /\ c.vox[p[1]][p[2]][p[3]].a # 0
                 /\ c.vox[p[1]][p[2]][p[3]] = c.vox[q[1]][q[2]][q[3]]

\* C16: from a world whose palette is empty or holds cubes of one width, height
\* and depth, after any sequence of addCube calls every palette cube has the
\* dimensions of the first one, and a call that raises leaves the palette as it
\* was.
C16_AddCubeKeepsUniform ==
    /\ UniformCubes(world)
    /\ (op \in {"addCube", "newCube"} /\ ret.thrown) => world.cube = prev.cube

\* a cube of another size refused by a palette that holds cubes
C16_Witness ==
    /\ op = "addCube"
    /\ ret.thrown
    /\ Len(world.cube) >= 1
    /\ Len(arg.vox[1][1]) # Len(world.cube[1].vox[1][1])
    /\ Len(arg.vox) = Len(world.cube[1].vox)
    /\ Len(arg.vox[1]) = Len(world.cube[1].vox[1])

\* the addresses of the arrays of the space at address a: the space, its
\* slices and their rows
SpaceAddrs(h, a) ==
    {a} \cup { h[a][i] : i \in 1..Len(h[a]) }
        \cup UNION { { h[h[a][i]][j] : j \in 1..Len(h[h[a][i]]) } : i \in 1..Len(h[a]) }

\* C15: World.empty(x,y,z) returns a world with an empty palette and an
\* all-zero grid of extents x, y, z; all its slices are one array and all its
\* rows are one array, so that after a write of id at (i,j,k) the id read at
\* (i',j',k) is id for every i' and j'.
C15_WorldEmptyAliased ==
    LET sp == heap[world.space]
        v  == ValueOf(heap, world)
    IN  /\ op = "World.empty" =>
            /\ v.cube = <<>>
            /\ Len(v.space) = arg[1]
            /\ \A i \in 1..arg[1] :
                /\ Len(v.space[i]) = arg[2]
                /\ \A j \in 1..arg[2] : v.space[i][j] = [k \in 1..arg[3] |-> 0]
        /\ \A i \in 1..Len(sp) :
            /\ sp[i] = sp[1]
            /\ \A j \in 1..Len(heap[sp[i]]) : heap[sp[i]][j] = heap[sp[1]][1]
        /\ op = "setId" =>
            \A i \in 1..Len(v.space) : \A j \in 1..Len(v.space[i]) :
                v.space[i][j][arg.k] = arg.id

\* a write at (1,1,k) of a nonzero id is read back at (2,2,k)
C15_Witness ==
    /\ op = "setId"
    /\ arg.i = 1
    /\ arg.j = 1
    /\ arg.id # 0
    /\ Len(heap[world.space]) >= 2
    /\ Len(heap[heap[world.space][2]]) >= 2
    /\ prev.space[2][2][arg.k] = 0
    /\ ValueOf(heap, world).space[2][2][arg.k] = arg.id

\* C18: the world returned by World.map holds the same palette array as the
\* world it was called on and space arrays of its own: a successful addCube(c)
\* on either world makes c the last cube of both palettes, and the space of
\* the world is unchanged by map and by a write to the space of the mapped
\* world.
C18_MapSharesPalette ==
    mapped # NoWorld =>
        LET v  == ValueOf(heap, world)
            v2 == ValueOf(heap, mapped)
        IN  /\ mapped.cube = world.cube
            /\ v2.cube = v.cube
            /\ SpaceAddrs(heap, world.space) \cap SpaceAddrs(heap, mapped.space) = {}
            /\ world.cube \notin SpaceAddrs(heap, world.space) \cup SpaceAddrs(heap, mapped.space)
            /\ op = "World.map" =>
                /\ v.space = prev.space
                /\ v2.space = WorldMap(prev, arg).space
            /\ (op = "addCube" /\ ~ret.thrown) =>
                /\ v.cube = Append(prev.cube, arg.cube)
                /\ v2.cube = Append(prev.cube, arg.cube)
            /\ (op = "setId" /\ arg.target = "mapped") =>
                /\ v.space = prev.space
                /\ v2.space[arg.i][arg.j][arg.k] = arg.id

\* a cube added to the mapped world is the last cube of the world it was
\* mapped from, which had a cube before
C18_Witness ==
    /\ mapped # NoWorld
    /\ op = "addCube"
    /\ arg.target = "mapped"
    /\ ~ret.thrown
    /\ Len(prev.cube) = 1
    /\ Len(heap[world.cube]) = 2
    /\ heap[world.cube][2] = arg.cube

=============================================================================
